---- MODULE Spec2Model ----
(***************************************************************************)
(* Model of the job-function lookup of app.py (a Streamlit script): one    *)
(* run of the script over a loaded table, a typed query and a slider       *)
(* value, stepping through `if query:`, the exact tier, then the fuzzy     *)
(* tier when a scorer library was imported, or else the substring and the  *)
(* keyword tiers.                                                          *)
(*                                                                         *)
(* Strings are sequences of one-character strings, so that strip, lower,   *)
(* split and the regular-expression search of pandas' str.contains are     *)
(* computed and not assumed.  The alphabet is the letters of Names and     *)
(* Queries, the space, and the metacharacters ".", "|" and "(".            *)
(*                                                                         *)
(* The similarity scorer of the library is opaque: `scorer` is any         *)
(* function from the query as the library receives it and a choice to a    *)
(* score of Scores (whole numbers; rapidfuzz returns floats, which the     *)
(* script only compares with min_score and rounds for display).            *)
(*                                                                         *)
(* A run ends with kind Exact, Fuzzy, Substring, Keyword or NoMatch, with  *)
(* "None" when the `if query:` block is skipped, or with "Error" when      *)
(* re.error leaves str.contains uncaught.                                  *)
(***************************************************************************)
EXTENDS Integers, Sequences, FiniteSets, TLC

VARIABLES df, FUZZY_LIB, scorer, query, min_score, pc, kind, hits, suggestions, tried

vars == <<df, FUZZY_LIB, scorer, query, min_score, pc, kind, hits, suggestions, tried>>

----------------------------------------------------------------------------
(* Bounds of the model *)

\* longest table built from every sequence of names
MaxTable == 2
\* the long tables have Limit+1 .. Limit+MaxPad rows
MaxPad == 1

(* Program constants *)
Limit == 10
SuggestionCount == 3
MinTokenLen == 3
SliderMin == 50
SliderMax == 100
SliderDefault == 80

----------------------------------------------------------------------------
(* Strings *)

Range(s) == {s[i] : i \in 1..Len(s)}

SetMin(S) == CHOOSE x \in S : \A y \in S : x <= y
SetMax(S) == CHOOSE x \in S : \A y \in S : x >= y

\* a sequence given by a rule, held as the list of its values
List(f) == SubSeq(f, 1, Len(f))

IsSpace(c) == c = " "

\* str.lower() on one character: only letters change
LowerChar(c) ==
    CASE c = "A" -> "a"
      [] c = "B" -> "b"
      [] OTHER -> c

Lower(s) == List([i \in 1..Len(s) |-> LowerChar(s[i])])

\* str.strip(): drops leading and trailing whitespace
Strip(s) ==
    LET keep == {i \in 1..Len(s) : ~IsSpace(s[i])}
    IN  IF keep = {} THEN <<>> ELSE SubSeq(s, SetMin(keep), SetMax(keep))

\* query.strip().lower() and df[fun_col].astype(str).str.strip().str.lower()
Normalize(s) == Lower(Strip(s))

\* literal containment, the reading of "contains as a contiguous substring"
Contains(text, pat) ==
    \E i \in 0..(Len(text) - Len(pat)) : SubSeq(text, i + 1, i + Len(pat)) = pat

\* str.split(): the maximal runs of non-whitespace, left to right
RECURSIVE SplitFrom(_, _)
SplitFrom(s, i) ==
    IF i > Len(s) THEN <<>>
    ELSE IF IsSpace(s[i]) THEN SplitFrom(s, i + 1)
    ELSE LET ends == {j \in i..Len(s) : j = Len(s) \/ IsSpace(s[j + 1])}
             e == SetMin(ends)
         IN  <<SubSeq(s, i, e)>> \o SplitFrom(s, e + 1)

Split(s) == SplitFrom(s, 1)

----------------------------------------------------------------------------
(* pandas Series.str.contains(pat, na=False): regex=True by default, so the *)
(* pattern is compiled by re and searched in every key.  Over the alphabet  *)
(* of the model the metacharacters are "." (any character), "|"             *)
(* (alternation) and "(" (never closed: re.error).                          *)

RegexCompiles(pat) == "(" \notin Range(pat)

\* the alternatives of the pattern: the stretches between "|"
Alternatives(pat) ==
    LET bars == {0, Len(pat) + 1} \cup {i \in 1..Len(pat) : pat[i] = "|"}
    IN  {SubSeq(pat, a + 1, b - 1) :
            <<a, b>> \in {ab \in bars \X bars :
                            /\ ab[1] < ab[2]
                            /\ \A c \in bars : ~(ab[1] < c /\ c < ab[2])}}

\* re.search of one alternative at any offset of the text
AltSearch(alt, text) ==
    \E i \in 0..(Len(text) - Len(alt)) :
        \A j \in 1..Len(alt) : alt[j] = "." \/ alt[j] = text[i + j]

RegexSearch(pat, text) == \E alt \in Alternatives(pat) : AltSearch(alt, text)

----------------------------------------------------------------------------
(* The inputs of a run *)

NameAb   == <<"A", "b">>
NameAbSp == <<"a", "b", " ">>
NameAbcd == <<"a", "b", "c", "d">>

\* display names of the function column; NameAb and NameAbSp share the key "ab"
Names == {NameAb, NameAbSp, NameAbcd}

\* the table as loaded and preprocessed: row i carries its name, its own CBO
\* code, and the search column df['__fun_lower'] the script adds
MakeTable(ns) ==
    List([i \in 1..Len(ns) |->
            [name |-> ns[i], cbo |-> i, fun_lower |-> Normalize(ns[i])]])

ShortTables == {MakeTable(ns) : ns \in UNION {[1..n -> Names] : n \in 0..MaxTable}}

LongTables ==
    {MakeTable([i \in 1..n |-> IF i % 2 = 1 THEN NameAbcd ELSE NameAb]) :
        n \in (Limit + 1)..(Limit + MaxPad)}

Tables == ShortTables \cup LongTables

\* what the user may type in the text input
Queries ==
    { <<>>,
      <<" ">>,
      <<" ", "A", "B">>,
      <<"a", "b">>,
      <<"a", "b", "c", "d">>,
      <<"b">>,
      <<"a", ".">>,
      <<"|">>,
      <<"(">>,
      <<"A", "c">>,
      <<"a", "c">>,
      <<"a", "b", "c", "d", " ", "x">>,
      <<"a", ".", "c", "d", " ", "x">>,
      <<"a", "b", " ", "x">>,
      <<"d", "c", "b", "a">> }

\* slider positions tried
MinScores == {SliderMin, SliderDefault, SliderMax}

\* values the similarity scorer may return
Scores == {40, 60, 100}

Libs == {"rapidfuzz", "fuzzywuzzy", "none"}

----------------------------------------------------------------------------
(* Derived state of the script *)

FUZZY_AVAILABLE == FUZZY_LIB # "none"

\* df['__fun_lower'].tolist()
FunLower == List([i \in 1..Len(df) |-> df[i].fun_lower])

KeysOf(t) == {t[i].fun_lower : i \in 1..Len(t)}

\* fuzzywuzzy's process.extract runs its default processor on the query:
\* non-alphanumerics become spaces, then lower case, then strip.  rapidfuzz's
\* process.extract(query, choices, scorer=fuzz.WRatio) scores the query as given.
FullProcess(s) ==
    Normalize(List([i \in 1..Len(s) |->
                      IF s[i] \in {".", "|", "("} THEN " " ELSE s[i]]))

ScoredForm(lib, q) == IF lib = "fuzzywuzzy" THEN FullProcess(q) ELSE q

\* the strings on which a run (and the runs of the queries that normalize to the
\* same string) may call the scorer
ScoredStrings(lib, q) ==
    IF lib = "none" THEN {}
    ELSE {ScoredForm(lib, q2) : q2 \in {x \in Queries : Normalize(x) = Normalize(q)}}

\* the similarity of a query to each choice: an opaque function of the two strings
ScoresOf(q) == scorer[ScoredForm(FUZZY_LIB, q)]

Score(q, choice) == ScoresOf(q)[choice]

----------------------------------------------------------------------------
(* The tiers, computed as the script computes them *)

\* df[mask]: the row positions a boolean mask selects, in table order
RowsWhere(mask) ==
    LET Selected(i) == mask[i]
    IN  SelectSeq(List([i \in 1..Len(df) |-> i]), Selected)

\* one rendered row: st.subheader(row[fun_col]); st.write('**CBO:**', row[cbo_col])
ShowRow(i) == [name |-> df[i].name, cbo |-> df[i].cbo]

\* df[df['__fun_lower'] == m[0]].iloc[0]: the first row that carries the key
RowOfChoice(choice) == SetMin({i \in 1..Len(df) : df[i].fun_lower = choice})

\* process.extract: every choice scored, sorted by descending score, equal scores
\* in the order of the choices; ranked[r] is the position of the r-th best choice
RECURSIVE RankedAmong(_, _)
RankedAmong(scores, S) ==
    IF S = {} THEN <<>>
    ELSE LET Before(j, i) ==
                 scores[j] > scores[i] \/ (scores[j] = scores[i] /\ j < i)
             best == CHOOSE i \in S : \A j \in S \ {i} : Before(i, j)
         IN  <<best>> \o RankedAmong(scores, S \ {best})

Ranked(scores) == RankedAmong(scores, 1..Len(scores))

\* fuzzy_search(query, choices, min_score, limit): the first `limit` ranked
\* choices as (choice, score, index); the third component is the position of the
\* choice under rapidfuzz and the rank under fuzzywuzzy, both counted from 0
fuzzy_search(q, choices, limit) ==
    LET similarity == ScoresOf(q)
        scores == List([i \in 1..Len(choices) |-> similarity[choices[i]]])
        ranked == Ranked(scores)
        k == IF Len(choices) < limit THEN Len(choices) ELSE limit
    IN  List([r \in 1..k |->
            [choice |-> choices[ranked[r]],
             score  |-> scores[ranked[r]],
             index  |-> IF FUZZY_LIB = "rapidfuzz" THEN ranked[r] - 1 ELSE r - 1]])

\* Good with the comparison turned around
GoodBelow(matches, m) ==
    LET Keep(x) == x.score <= m IN SelectSeq(matches, Keep)

\* good = [m for m in matches if m[1] >= min_score]
Good(matches, m) ==
    LET Keep(x) == x.score >= m IN SelectSeq(matches, Keep)

Result(k, h, s) == [kind |-> k, hits |-> h, suggestions |-> s]

\* ExactRows without the strip of the query
ExactRowsNoStrip(q) ==
    LET nq == Lower(q)
    IN  RowsWhere(List([i \in 1..Len(df) |-> df[i].fun_lower = nq]))

\* mask_exact = df['__fun_lower'] == query.strip().lower(); results = df[mask_exact]
ExactRows(q) ==
    LET nq == Normalize(q)
    IN  RowsWhere(List([i \in 1..Len(df) |-> df[i].fun_lower = nq]))

ShowRows(rows) == List([j \in 1..Len(rows) |-> ShowRow(rows[j])])

\* the fuzzy branch: the good matches rendered, or the warning with the first
\* three matches as suggestions
FuzzyBranch(q, m) ==
    LET matches == fuzzy_search(q, FunLower, Limit)
        good == Good(matches, m)
        top == SubSeq(matches, 1,
                      IF Len(matches) < SuggestionCount THEN Len(matches)
                      ELSE SuggestionCount)
    IN  IF good = <<>>
        THEN Result("NoMatch", <<>>,
                    List([j \in 1..Len(top) |->
                            [name  |-> df[RowOfChoice(top[j].choice)].name,
                             score |-> top[j].score]]))
        ELSE Result("Fuzzy",
                    List([j \in 1..Len(good) |->
                            [name  |-> df[RowOfChoice(good[j].choice)].name,
                             cbo   |-> df[RowOfChoice(good[j].choice)].cbo,
                             score |-> good[j].score]]),
                    <<>>)

\* mask_substring = df['__fun_lower'].str.contains(query.strip().lower(), na=False)
SubstringRows(q) ==
    LET nq == Normalize(q)
    IN  RowsWhere(List([i \in 1..Len(df) |-> RegexSearch(nq, df[i].fun_lower)]))

\* query_words = [w for w in query.strip().lower().split() if len(w) > 3]
QueryWords(q) ==
    LET Long(w) == Len(w) > MinTokenLen IN SelectSeq(Split(Normalize(q)), Long)

\* mask_words = mask_words | df['__fun_lower'].str.contains(word, na=False)
KeywordRows(q) ==
    LET words == QueryWords(q)
    IN  RowsWhere(List([i \in 1..Len(df) |->
            \E w \in 1..Len(words) : RegexSearch(words[w], df[i].fun_lower)]))

\* every word of the keyword loop compiles as a regular expression
WordsCompile(q) ==
    LET words == QueryWords(q)
    IN  \A w \in 1..Len(words) : RegexCompiles(words[w])

----------------------------------------------------------------------------
(* One step of the script from each position: where control goes next and *)
(* what has been rendered.  "Pending" means nothing has been rendered yet; *)
(* "None" is the run that skips the whole `if query:` block; "Error" is    *)
(* the run that re.error aborts.                                           *)

Pending == Result("Pending", <<>>, <<>>)

Goto(p, r) == [pc |-> p, res |-> r]

\* if query:
GuardStep(q) ==
    IF q # <<>> THEN Goto("exact", Pending)
    ELSE Goto("done", Result("None", <<>>, <<>>))

\* lines 215-229
ExactStep(q) ==
    IF ExactRows(q) # <<>>
    THEN Goto("done", Result("Exact", ShowRows(ExactRows(q)), <<>>))
    ELSE Goto(IF FUZZY_AVAILABLE THEN "fuzzy" ELSE "substring", Pending)

\* FuzzyStep falling through to the substring tier when no match is good
FuzzyStepFallsThrough(q, m) ==
    IF FuzzyBranch(q, m).kind = "NoMatch" THEN Goto("substring", Pending)
    ELSE Goto("done", FuzzyBranch(q, m))

\* lines 230-251
FuzzyStep(q, m) == Goto("done", FuzzyBranch(q, m))

\* lines 253-270
SubstringStep(q) ==
    IF ~RegexCompiles(Normalize(q))
    THEN Goto("done", Result("Error", <<>>, <<>>))
    ELSE IF SubstringRows(q) # <<>>
    THEN Goto("done", Result("Substring", ShowRows(SubstringRows(q)), <<>>))
    ELSE Goto("keyword", Pending)

\* lines 271-295
KeywordStep(q) ==
    IF QueryWords(q) = <<>>
    THEN Goto("done", Result("NoMatch", <<>>, <<>>))
    ELSE IF ~WordsCompile(q)
    THEN Goto("done", Result("Error", <<>>, <<>>))
    ELSE IF KeywordRows(q) # <<>>
    THEN Goto("done", Result("Keyword", ShowRows(KeywordRows(q)), <<>>))
    ELSE Goto("done", Result("NoMatch", <<>>, <<>>))

Step(p, q, m) ==
    CASE p = "start"     -> GuardStep(q)
      [] p = "exact"     -> ExactStep(q)
      [] p = "fuzzy"     -> FuzzyStep(q, m)
      [] p = "substring" -> SubstringStep(q)
      [] p = "keyword"   -> KeywordStep(q)

\* the whole run on query q with threshold m, on the loaded table
RECURSIVE RunFrom(_, _, _)
RunFrom(p, q, m) ==
    LET s == Step(p, q, m)
    IN  IF s.pc = "done" THEN s.res ELSE RunFrom(s.pc, q, m)

Lookup(q, m) == RunFrom("start", q, m)

----------------------------------------------------------------------------
(* The state machine *)

Init ==
    /\ df \in Tables
    /\ FUZZY_LIB \in Libs
    /\ query \in Queries
    /\ min_score \in MinScores
    /\ scorer \in [ScoredStrings(FUZZY_LIB, query) -> [KeysOf(df) -> Scores]]
    /\ pc = "start"
    /\ kind = "Pending"
    /\ hits = <<>>
    /\ suggestions = <<>>
    /\ tried = <<>>

Inputs == <<df, FUZZY_LIB, scorer, query, min_score>>

\* what a step renders and where it leaves the script
Commit(s) ==
    /\ pc' = s.pc
    /\ kind' = s.res.kind
    /\ hits' = s.res.hits
    /\ suggestions' = s.res.suggestions

Submit ==
    /\ pc = "start"
    /\ Commit(GuardStep(query))
    /\ UNCHANGED tried
    /\ UNCHANGED Inputs

ExactTier ==
    /\ pc = "exact"
    /\ Commit(ExactStep(query))
    /\ tried' = Append(tried, "Exact")
    /\ UNCHANGED Inputs

FuzzyTier ==
    /\ pc = "fuzzy"
    /\ Commit(FuzzyStep(query, min_score))
    /\ tried' = Append(tried, "Fuzzy")
    /\ UNCHANGED Inputs

SubstringTier ==
    /\ pc = "substring"
    /\ Commit(SubstringStep(query))
    /\ tried' = Append(tried, "Substring")
    /\ UNCHANGED Inputs

KeywordTier ==
    /\ pc = "keyword"
    /\ Commit(KeywordStep(query))
    /\ tried' = Append(tried, "Keyword")
    /\ UNCHANGED Inputs

Next ==
    \/ Submit
    \/ ExactTier
    \/ FuzzyTier
    \/ SubstringTier
    \/ KeywordTier

Spec == Init /\ [][Next]_vars

Done == pc = "done"

TypeOK ==
    /\ pc \in {"start", "exact", "fuzzy", "substring", "keyword", "done"}
    /\ kind \in {"Pending", "None", "Exact", "Fuzzy", "Substring", "Keyword",
                 "NoMatch", "Error"}
    /\ Done <=> kind # "Pending"

----------------------------------------------------------------------------
(* Vocabulary of the properties, stated on the table and not on the tiers' *)
(* code: positions, literal containment, records.                          *)

Positions == 1..Len(df)

KeyAt(i) == Lower(Strip(df[i].name))

\* the positions of S in table order
RECURSIVE InOrder(_)
InOrder(S) ==
    IF S = {} THEN <<>>
    ELSE LET least == CHOOSE i \in S : \A j \in S : i <= j
         IN  <<least>> \o InOrder(S \ {least})

\* the records at the given positions
RecordsAt(ps) ==
    List([j \in 1..Len(ps) |-> [name |-> df[ps[j]].name, cbo |-> df[ps[j]].cbo]])

ScoredRecordsAt(ps) ==
    List([j \in 1..Len(ps) |->
            [name  |-> df[ps[j]].name,
             cbo   |-> df[ps[j]].cbo,
             score |-> Score(query, KeyAt(ps[j]))]])

Tried(t) == t \in Range(tried)

ExactPositions == {i \in Positions : KeyAt(i) = Normalize(query)}

\* the candidates of Tier 2: every position ranked by descending score, ties in
\* table order, cut to the first Limit
Candidates ==
    LET similarity == ScoresOf(query)
        ranked == Ranked(List([i \in 1..Len(df) |-> similarity[KeyAt(i)]]))
    IN  SubSeq(ranked, 1, IF Len(df) < Limit THEN Len(df) ELSE Limit)

GoodCandidates(m) ==
    LET Keep(i) == Score(query, KeyAt(i)) >= m IN SelectSeq(Candidates, Keep)

\* the result the state holds
Rendered == Result(kind, hits, suggestions)

----------------------------------------------------------------------------
(* C1: exact-match precedence.  For a non-empty query, when some record's  *)
(* normalized key equals the normalized query, the run ends with kind      *)
(* Exact, its hits are exactly the records with that key, in table order   *)
(* and without scores, nothing is suggested, and no tier after Exact is    *)
(* entered, whatever the scorer and min_score are.                         *)
C1_ExactPrecedence ==
    (query # <<>> /\ ExactPositions # {}) =>
        /\ pc \in {"start", "exact", "done"}
        /\ Done => /\ kind = "Exact"
                   /\ hits = RecordsAt(InOrder(ExactPositions))
                   /\ suggestions = <<>>
                   /\ tried = <<"Exact">>

\* an exact result of two records that share a key, reached with a scorer present
\* from a query that differs from the key in case and leading space
C1_Witness ==
    /\ Done
    /\ kind = "Exact"
    /\ FUZZY_AVAILABLE
    /\ query = <<" ", "A", "B">>
    /\ Len(hits) = 2
    /\ hits[1].name # hits[2].name
    /\ hits[1].cbo # hits[2].cbo

----------------------------------------------------------------------------
(* What each tier yields on the run's inputs *)

Produced(t) ==
    CASE t = "Exact"     -> Len(ExactRows(query))
      [] t = "Fuzzy"     -> Len(Good(fuzzy_search(query, FunLower, Limit), min_score))
      [] t = "Substring" -> IF RegexCompiles(Normalize(query))
                            THEN Len(SubstringRows(query)) ELSE 0
      [] t = "Keyword"   -> IF WordsCompile(query)
                            THEN Len(KeywordRows(query)) ELSE 0

\* the tiers of the deployment, in the order the script visits them
Chain ==
    IF FUZZY_AVAILABLE THEN <<"Exact", "Fuzzy">>
    ELSE <<"Exact", "Substring", "Keyword">>

Last(sq) == sq[Len(sq)]

(* C2 as stated: one chain Exact -> Fuzzy -> Substring -> Keyword -> NoMatch, *)
(* so that NoMatch is reached only after Substring and Keyword were tried     *)
(* and produced nothing (Fuzzy being skipped only when there is no scorer).   *)
C2_SingleChain ==
    (Done /\ kind = "NoMatch") => (Tried("Substring") /\ Tried("Keyword"))

(* C2, amended: the run follows one of two chains, chosen by the scorer's    *)
(* availability: Exact -> Fuzzy -> NoMatch with a scorer, Exact -> Substring *)
(* -> Keyword -> NoMatch without.  A tier is tried only if every tier tried  *)
(* before it produced zero hits; a tier that produces hits ends the run with *)
(* its own kind; NoMatch is reached only when every tier of the chain was    *)
(* tried and produced zero hits.                                             *)
C2_TwoChains ==
    /\ \E n \in 0..Len(Chain) : tried = SubSeq(Chain, 1, n)
    /\ \A j \in 1..(Len(tried) - 1) : Produced(tried[j]) = 0
    /\ (tried # <<>> /\ Produced(Last(tried)) > 0) =>
            (Done /\ kind = Last(tried) /\ Len(hits) = Produced(Last(tried)))
    /\ (Done /\ kind \in {"Exact", "Fuzzy", "Substring", "Keyword"}) =>
            (kind = Last(tried) /\ hits # <<>>)
    /\ (Done /\ kind = "NoMatch") =>
            (tried = Chain /\ \A j \in 1..Len(Chain) : Produced(Chain[j]) = 0)
    /\ (Done /\ kind = "Error") =>
            (~FUZZY_AVAILABLE /\ Last(tried) \in {"Substring", "Keyword"})

\* with a scorer, no good match: NoMatch straight after Fuzzy, although a record
\* contains the query and the substring tier would have found it
C2_Witness ==
    /\ Done
    /\ kind = "NoMatch"
    /\ tried = <<"Exact", "Fuzzy">>
    /\ \E i \in Positions : Contains(KeyAt(i), Normalize(query))
    /\ Normalize(query) # <<>>

----------------------------------------------------------------------------
(* C7: threshold monotonicity.  For the table, query and scorer of the run *)
(* and any two thresholds m1 <= m2 of the slider's range, the hits of the   *)
(* Fuzzy result under m2 are among the hits under m1 and no more numerous   *)
(* (no Fuzzy result counting as no hits); the run's own hits are those of   *)
(* its threshold.  The comparison over all pairs does not read min_score,   *)
(* so it is made once per table, query and scorer, at the runs whose        *)
(* threshold is SliderMin.                                                  *)
FuzzyHits(r) == IF r.kind = "Fuzzy" THEN r.hits ELSE <<>>

C7_ThresholdMonotone ==
    (Done /\ Tried("Fuzzy")) =>
        LET byThreshold ==
                List([k \in 1..(SliderMax - SliderMin + 1) |->
                        FuzzyHits(Lookup(query, SliderMin + k - 1))])
        IN  /\ FuzzyHits(Lookup(query, min_score)) = FuzzyHits(Rendered)
            /\ min_score = SliderMin =>
                \A a, b \in 1..Len(byThreshold) :
                    a <= b =>
                        /\ Range(byThreshold[b]) \subseteq Range(byThreshold[a])
                        /\ Len(byThreshold[b]) <= Len(byThreshold[a])

\* a Fuzzy result at the lowest threshold that the highest threshold shrinks
\* without emptying it
C7_Witness ==
    /\ Done
    /\ kind = "Fuzzy"
    /\ min_score = SliderMin
    /\ FuzzyHits(Lookup(query, SliderMax)) # <<>>
    /\ Len(FuzzyHits(Lookup(query, SliderMax))) < Len(hits)

----------------------------------------------------------------------------
(* C3: duplicates are retrievable in every tier.  Every hit or suggestion   *)
(* is the record at the position that matched or was scored: a Fuzzy result *)
(* holds the records of the good candidates, the suggestions name the first *)
(* candidates, and in no result is a record shown twice.                    *)
C3_DuplicatesRetrievable ==
    Done =>
        /\ kind = "Fuzzy" => hits = ScoredRecordsAt(GoodCandidates(min_score))
        /\ (kind = "NoMatch" /\ Tried("Fuzzy")) =>
                \A j \in 1..Len(suggestions) :
                    suggestions[j].name = df[Candidates[j]].name
        /\ \A j, k \in 1..Len(hits) : j # k => hits[j].cbo # hits[k].cbo

(* C4: the Fuzzy result.  With a scorer and no exact hit, if some candidate *)
(* of the first Limit ranked records scores at least min_score, the result  *)
(* is Fuzzy and consists of exactly those candidates' records, in ranking   *)
(* order, each with its score; otherwise the result is not Fuzzy.           *)
C4_FuzzyResult ==
    (Done /\ Tried("Fuzzy")) =>
        IF GoodCandidates(min_score) # <<>>
        THEN /\ kind = "Fuzzy"
             /\ hits = ScoredRecordsAt(GoodCandidates(min_score))
             /\ Len(hits) <= Limit
             /\ \A j \in 1..Len(hits) : hits[j].score >= min_score
        ELSE kind # "Fuzzy"

\* what holds of the Fuzzy result whatever the keys: it is the good candidates
\* by key and score, at most Limit of them, none below min_score
FuzzyResultByKey ==
    (Done /\ Tried("Fuzzy")) =>
        LET good == GoodCandidates(min_score)
        IN  /\ kind = "Fuzzy" <=> good # <<>>
            /\ kind = "Fuzzy" =>
                /\ Len(hits) = Len(good)
                /\ Len(hits) <= Limit
                /\ \A j \in 1..Len(hits) :
                    /\ Normalize(hits[j].name) = KeyAt(good[j])
                    /\ hits[j].score = Score(query, KeyAt(good[j]))
                    /\ hits[j].score >= min_score
                    /\ \E r \in 1..Limit : r <= Len(Candidates) /\ Candidates[r] = good[j]

(* C5: NoMatch with suggestions.  With a scorer, no exact hit and no capped *)
(* candidate at min_score or above, the result is NoMatch and its           *)
(* suggestions are the first min(3, n) ranked candidates with their scores; *)
(* on an empty table every query that is looked up ends in NoMatch with no  *)
(* suggestions and no error.                                                *)
C5_NoMatchSuggestions ==
    /\ (Done /\ Tried("Fuzzy") /\ GoodCandidates(min_score) = <<>>) =>
            /\ kind = "NoMatch"
            /\ hits = <<>>
            /\ suggestions =
                 List([j \in 1..(IF Len(df) < SuggestionCount THEN Len(df)
                                 ELSE SuggestionCount) |->
                         [name  |-> df[Candidates[j]].name,
                          score |-> Score(query, KeyAt(Candidates[j]))]])
    /\ (Done /\ Len(df) = 0 /\ query # <<>>) =>
            (kind = "NoMatch" /\ hits = <<>> /\ suggestions = <<>>)

\* what holds of the suggestions whatever the keys: with a scorer and no good
\* candidate the result is NoMatch with one suggestion per candidate among the
\* first three, carrying that candidate's key and score; an empty table gives none
SuggestionsByKey ==
    (Done /\ Tried("Fuzzy") /\ GoodCandidates(min_score) = <<>>) =>
        /\ kind = "NoMatch"
        /\ hits = <<>>
        /\ Len(suggestions) =
                (IF Len(df) < SuggestionCount THEN Len(df) ELSE SuggestionCount)
        /\ \A j \in 1..Len(suggestions) :
                /\ Normalize(suggestions[j].name) = KeyAt(Candidates[j])
                /\ suggestions[j].score = Score(query, KeyAt(Candidates[j]))

(* C6: keyword fallback.  In Tier 4 the tokens of the normalized query      *)
(* longer than 3 survive; with none the result is NoMatch without           *)
(* suggestions; otherwise it is Keyword with exactly the records whose key  *)
(* contains a surviving token literally, in table order, or NoMatch when    *)
(* there is none.                                                           *)
C6_KeywordFallback ==
    (Done /\ Tried("Keyword")) =>
        LET tokens == {w \in Range(Split(Normalize(query))) : Len(w) > MinTokenLen}
            holders == {i \in Positions : \E w \in tokens : Contains(KeyAt(i), w)}
        IN  IF holders = {}
            THEN kind = "NoMatch" /\ hits = <<>> /\ suggestions = <<>>
            ELSE kind = "Keyword" /\ hits = RecordsAt(InOrder(holders))

\* what holds of the keyword tier whatever the tokens: tokens of length <= 3 are
\* never searched, and a query with no longer token ends in NoMatch
ShortTokensIgnored ==
    (Done /\ Tried("Keyword")) =>
        /\ \A w \in Range(QueryWords(query)) : Len(w) > MinTokenLen
        /\ (\A w \in Range(Split(Normalize(query))) : Len(w) <= MinTokenLen) =>
                (kind = "NoMatch" /\ hits = <<>> /\ suggestions = <<>>)

(* C8: a blank query is a no-op.  For a query that is empty after trimming *)
(* no tier is entered and nothing is rendered.                              *)
C8_BlankQueryNoOp ==
    (Done /\ Strip(query) = <<>>) =>
        (kind = "None" /\ tried = <<>> /\ hits = <<>> /\ suggestions = <<>>)

(* C9: Tier 2 scores the normalized query, so every query with the same    *)
(* normalization as the run's query gives the same result on the same      *)
(* table and threshold: kind, hits, order, scores and suggestions.         *)
C9_NormalizedQueryScored ==
    (Done /\ Tried("Fuzzy")) =>
        \A q2 \in Queries :
            (q2 # <<>> /\ Normalize(q2) = Normalize(query)) =>
                Lookup(q2, min_score) = Rendered

\* what holds of Tier 2 under fuzzywuzzy, whose default processor lower-cases
\* and strips the query before scoring
SameResultUnderFuzzywuzzy ==
    (Done /\ Tried("Fuzzy") /\ FUZZY_LIB = "fuzzywuzzy") =>
        \A q2 \in Queries :
            (q2 # <<>> /\ Normalize(q2) = Normalize(query)) =>
                Lookup(q2, min_score) = Rendered

(* C10: Tier 3 is literal.  Without a scorer and without an exact hit the  *)
(* result is Substring with exactly the records whose key contains the     *)
(* normalized query as a literal contiguous substring, in table order, and *)
(* the keyword tier is entered exactly when there is no such record.       *)
C10_SubstringLiteral ==
    (Done /\ Tried("Substring")) =>
        LET holders == {i \in Positions : Contains(KeyAt(i), Normalize(query))}
        IN  /\ holders # {} =>
                (kind = "Substring" /\ hits = RecordsAt(InOrder(holders)))
            /\ holders = {} <=> Tried("Keyword")


\* what holds of Tier 3 and Tier 4 for a query without regular-expression
\* metacharacters: the search is the literal one
Plain(w) == Range(w) \cap {".", "|", "("} = {}

LiteralWhenPlain ==
    (Done /\ Plain(Normalize(query))) =>
        /\ Tried("Substring") =>
            LET holders == {i \in Positions : Contains(KeyAt(i), Normalize(query))}
            IN  /\ holders # {} =>
                    (kind = "Substring" /\ hits = RecordsAt(InOrder(holders)))
                /\ holders = {} <=> Tried("Keyword")
        /\ Tried("Keyword") =>
            LET tokens == {w \in Range(Split(Normalize(query))) : Len(w) > MinTokenLen}
                holders == {i \in Positions : \E w \in tokens : Contains(KeyAt(i), w)}
            IN  IF holders = {}
                THEN kind = "NoMatch" /\ hits = <<>> /\ suggestions = <<>>
                ELSE kind = "Keyword" /\ hits = RecordsAt(InOrder(holders))

====
